---- MODULE Spec2Model ----
(***************************************************************************)
(* A model of nut (src/src/nut.ts): line numbers for a textarea, painted   *)
(* on an off-screen canvas that becomes the textarea's background image.   *)
(*                                                                         *)
(* The program's state is the DOM state of the host textareas (computed    *)
(* style, attributes, scrollHeight, inline style), the Nu instances        *)
(* (element, override styles, dpr, StyleMutation snapshot, canvas, the     *)
(* timer of the debounced render) and the two observers' nuMap registries. *)
(* Time is the remaining delay of each armed timer. History variables      *)
(* (hist, last) record what the handlers did; they never influence the     *)
(* program state.                                                          *)
(***************************************************************************)
EXTENDS Integers, Sequences, FiniteSets, TLC

\* ---------------------------------------------------------------- bounds
\* The number of external events (attach, input, resize, attribute and value
\* changes) of one run.
MaxEvents == 2
\* The granularity of time: the clock advances by at most TimeStep units.
TimeStep == 10

\* ------------------------------------------------------- program constants
\* debounce(this.handleRender, 20, this)
Wait == 20

\* ------------------------------------------------------------- JS values
Undefined == "undefined"
Null == "null"
\* an optional value: <<>> is undefined/null, <<v>> is v
None == <<>>
Some(v) == <<v>>

\* JS loose equality on strings, null and undefined (a != b is its negation)
LooseEq(a, b) == a = b \/ (a \in {Undefined, Null} /\ b \in {Undefined, Null})

Range(seq) == {seq[k] : k \in DOMAIN seq}

\* "x || d" on strings: null, undefined and "" are falsy
OrElse(x, d) == IF x \in {Undefined, Null, ""} THEN d ELSE x

\* Number.prototype.toString() of a non-negative integer
Digit(d) == <<"0", "1", "2", "3", "4", "5", "6", "7", "8", "9">>[d + 1]
RECURSIVE NumberToString(_)
NumberToString(n) ==
    IF n < 10 THEN Digit(n) ELSE NumberToString(n \div 10) \o Digit(n % 10)

\* Math.floor in place of Math.ceil
MathFloor(s, l) == s \div l

\* Math.ceil(s / l) for integers s >= 0, l > 0
MathCeil(s, l) == (s + l - 1) \div l

\* ------------------------------------------------------------ module data
mutationStyleProps == <<"paddingTop", "paddingRight", "lineHeight", "fontSize", "fontFamily">>
StyleProps == {mutationStyleProps[k] : k \in DOMAIN mutationStyleProps}

dataAttrsMap ==
    [Width |-> "data-nut-width", Padding |-> "data-nut-padding",
     Color |-> "data-nut-color", BgColor |-> "data-nut-bg-color"]
dataAttrs == <<dataAttrsMap.Width, dataAttrsMap.Padding, dataAttrsMap.Color, dataAttrsMap.BgColor>>
DataAttrs == {dataAttrs[k] : k \in DOMAIN dataAttrs}

\* an attribute of the host that NuMutationObserver.options does not list
OtherAttr == "title"
attributeFilter == {"style"} \cup DataAttrs

StyleKeys == {"numberWidth", "numberPadding", "numberColor", "numberBgColor"}

\* ------------------------------------------------- the layout engine (CSS)
\* The pixel value of the CSS lengths that occur in the model.
LengthPx ==
    ("0px" :> 0) @@ ("2px" :> 2) @@ ("4px" :> 4) @@ ("8px" :> 8) @@ ("12px" :> 12)
    @@ ("14px" :> 14) @@ ("20px" :> 20) @@ ("32px" :> 32) @@ ("64px" :> 64)
Px(s) == IF s \in DOMAIN LengthPx THEN LengthPx[s] ELSE 0

\* Element.clientWidth / clientHeight of the probe box of getMeasure: a block
\* with explicit width, no border, whose content is at most one line.
LineHeightPx(box) ==
    IF box.lineHeight = "1" THEN Px(box.fontSize) ELSE Px(box.lineHeight)
clientWidth(box) == Px(box.paddingLeft) + Px(box.width) + Px(box.paddingRight)
clientHeight(box) ==
    Px(box.paddingTop) + (IF box.innerHTML = "" THEN 0 ELSE LineHeightPx(box))
    + Px(box.paddingBottom)

\* element.style.prop = value: an invalid value is ignored
SetLength(old, value) == IF value \in DOMAIN LengthPx THEN value ELSE old

\* ------------------------------------------------------------- getMeasure
getMeasure(css, styles) ==
    LET box0 == [width |-> "0px", paddingTop |-> css.paddingTop,
                 paddingRight |-> css.paddingRight, paddingBottom |-> "0px",
                 paddingLeft |-> "0px", fontFamily |-> css.fontFamily,
                 fontSize |-> css.fontSize, lineHeight |-> css.lineHeight,
                 innerHTML |-> ""]
        paddingTop == clientHeight(box0)
        paddingRight == clientWidth(box0)
        box1 == [box0 EXCEPT !.paddingRight = SetLength(@, styles.numberPadding)]
        nuPadding == clientWidth(box1)
        box2 == [box1 EXCEPT !.paddingTop = "0px", !.paddingRight = "0px",
                             !.paddingBottom = "0px", !.paddingLeft = "0px",
                             !.width = SetLength(@, styles.numberWidth)]
        nuWidth == clientWidth(box2)
        box3 == [box2 EXCEPT !.innerHTML = "&nbsp;"]
        lineHeight == clientHeight(box3)
        box4 == [box3 EXCEPT !.lineHeight = "1"]
        fontSize == clientHeight(box4)
    IN  [lineHeight |-> lineHeight, fontSize |-> fontSize, paddingRight |-> paddingRight,
         paddingTop |-> paddingTop, nuWidth |-> nuWidth, nuPadding |-> nuPadding]

\* ---------------------------------------------------------- StyleMutation
NewStyleMutation ==
    [prevStyle |-> [p \in StyleProps |-> Undefined],
     prevData |-> [a \in DataAttrs |-> Undefined]]

\* StyleMutation.set(style, el)
StyleMutationSet(sm, style, elAttrs) ==
    [prevStyle |-> [p \in StyleProps |-> style[p]],
     prevData |-> [a \in DataAttrs |-> elAttrs[a]]]

\* styleDiff() with fontFamily left out of the properties it compares
styleDiffNoFontFamily(sm, style) ==
    LET props == StyleProps \ {"fontFamily"}
    IN  [result |-> \E p \in props : ~LooseEq(style[p], sm.prevStyle[p]),
         sm |-> [sm EXCEPT !.prevStyle =
                    [p \in StyleProps |->
                        IF p \in props /\ ~LooseEq(style[p], sm.prevStyle[p])
                        THEN style[p] ELSE sm.prevStyle[p]]]]

\* styleDiff() without "prevStyle.set(prop, value)"
styleDiffNoUpdate(sm, style) ==
    [result |-> \E p \in StyleProps : ~LooseEq(style[p], sm.prevStyle[p]), sm |-> sm]

\* StyleMutation.styleDiff(style): the result and the StyleMutation after it
styleDiff(sm, style) ==
    [result |-> \E p \in StyleProps : ~LooseEq(style[p], sm.prevStyle[p]),
     sm |-> [sm EXCEPT !.prevStyle =
                [p \in StyleProps |->
                    IF ~LooseEq(style[p], sm.prevStyle[p]) THEN style[p] ELSE sm.prevStyle[p]]]]

\* dataDiff() with data-nut-color left out of the attributes it compares
dataDiffNoColor(sm, elAttrs) ==
    LET names == DataAttrs \ {dataAttrsMap.Color}
    IN  [result |-> \E a \in names : ~LooseEq(elAttrs[a], sm.prevData[a]),
         sm |-> [sm EXCEPT !.prevData =
                    [a \in DataAttrs |->
                        IF a \in names /\ ~LooseEq(elAttrs[a], sm.prevData[a])
                        THEN elAttrs[a] ELSE sm.prevData[a]]]]

\* StyleMutation.dataDiff(el)
dataDiff(sm, elAttrs) ==
    [result |-> \E a \in DataAttrs : ~LooseEq(elAttrs[a], sm.prevData[a]),
     sm |-> [sm EXCEPT !.prevData =
                [a \in DataAttrs |->
                    IF ~LooseEq(elAttrs[a], sm.prevData[a]) THEN elAttrs[a] ELSE sm.prevData[a]]]]

\* --------------------------------------------------------------- the DOM
\* The textareas of the document.
Hosts == {"h1", "h2"}

\* getComputedStyle(el) of a host at page load, and the values a later change
\* of the host's style attribute can give one tracked property.
DefaultCss ==
    [paddingTop |-> "2px", paddingRight |-> "4px", lineHeight |-> "20px",
     fontSize |-> "14px", fontFamily |-> "serif"]
OtherCss ==
    [paddingTop |-> "0px", paddingRight |-> "8px", lineHeight |-> "12px",
     fontSize |-> "12px", fontFamily |-> "monospace"]

\* The values an attribute of the host can be set to; Null is "absent".
AttrNames == DataAttrs \cup {OtherAttr}
AttrValues ==
    (dataAttrsMap.Width :> {Null, "32px"}) @@ (dataAttrsMap.Padding :> {Null, "4px"})
    @@ (dataAttrsMap.Color :> {Null, "", "#c00"}) @@ (dataAttrsMap.BgColor :> {Null, "#fff"})
    @@ (OtherAttr :> {Null, "notes"})
DefaultAttrs == [a \in AttrNames |-> Null]

\* el.scrollHeight
ScrollHeights == {100, 140}

\* window.devicePixelRatio of the page's display (0 would stand for a missing,
\* falsy value)
DevicePixelRatios == {2}

\* The styles argument of nut(el, styles): absent or an object.
StylesArgs ==
    {None, Some([numberColor |-> "#00c"]),
     Some([numberWidth |-> "32px", numberPadding |-> "4px"])}

\* The inline style of a host before any render wrote it.
NoInlineStyle ==
    [paddingLeft |-> None, boxSizing |-> None, backgroundRepeat |-> None,
     backgroundAttachment |-> None, backgroundSize |-> None, backgroundImage |-> None]

\* ------------------------------------------------------------------- Nu
\* document.createElement("canvas") and its 2d context
NewCanvas ==
    [width |-> 300, height |-> 150, transform |-> 1, fillStyle |-> "#000000",
     textAlign |-> "start", font |-> "10px sans-serif", rect |-> None, texts |-> <<>>]

\* new Nu(el, styles)
NewNu(el, styles, devicePixelRatio) ==
    LET dpr == IF devicePixelRatio = 0 THEN 1 ELSE devicePixelRatio
    IN  [el |-> el, styles |-> styles, dpr |-> dpr,
         canvas |-> [NewCanvas EXCEPT !.transform = dpr],
         styleMutation |-> NewStyleMutation, timeout |-> None]

\* Nu.getAttr(attr, defaultValue)
getAttr(elAttrs, attr, defaultValue) == OrElse(elAttrs[dataAttrsMap[attr]], defaultValue)

\* ensureStyles() with the spread first: a present attribute wins over this.styles
ensureStylesAttrsFirst(nu, elAttrs) ==
    LET thisStyles == IF nu.styles = None THEN <<>> ELSE nu.styles[1]
        fromAttrs == [numberPadding |-> getAttr(elAttrs, "Padding", "8px"),
                      numberWidth |-> getAttr(elAttrs, "Width", "64px"),
                      numberColor |-> getAttr(elAttrs, "Color", "#666"),
                      numberBgColor |-> getAttr(elAttrs, "BgColor", "#f4f4f4")]
        attrOf == [numberPadding |-> "Padding", numberWidth |-> "Width",
                   numberColor |-> "Color", numberBgColor |-> "BgColor"]
    IN  [styles |-> Some(thisStyles),
         result |-> [k \in StyleKeys |->
                        IF k \in DOMAIN thisStyles
                           /\ elAttrs[dataAttrsMap[attrOf[k]]] \in {Undefined, Null, ""}
                        THEN thisStyles[k] ELSE fromAttrs[k]]]

\* Nu.ensureStyles(): this.styles afterwards, and the returned TStyles
ensureStyles(nu, elAttrs) ==
    LET thisStyles == IF nu.styles = None THEN <<>> ELSE nu.styles[1]
        fromAttrs == [numberPadding |-> getAttr(elAttrs, "Padding", "8px"),
                      numberWidth |-> getAttr(elAttrs, "Width", "64px"),
                      numberColor |-> getAttr(elAttrs, "Color", "#666"),
                      numberBgColor |-> getAttr(elAttrs, "BgColor", "#f4f4f4")]
    IN  [styles |-> Some(thisStyles),
         result |-> [k \in StyleKeys |->
                        IF k \in DOMAIN thisStyles THEN thisStyles[k] ELSE fromAttrs[k]]]

\* setStyle() with the gutter's padding in place of the host's right padding
setStyleGutterPadding(inline, measure, dataURL) ==
    [inline EXCEPT
        !.paddingLeft = Some(<<measure.nuWidth + measure.nuPadding, "px">>),
        !.boxSizing = Some("border-box"),
        !.backgroundRepeat = Some("no-repeat"),
        !.backgroundAttachment = Some("local"),
        !.backgroundSize = Some(<<measure.nuWidth, "px", "auto">>),
        !.backgroundImage = Some(<<"url", dataURL>>)]

\* setStyle() adding the gutter to the padding-left the host already has
setStyleAddsPadding(inline, measure, dataURL) ==
    LET had == IF inline.paddingLeft = None THEN 0 ELSE inline.paddingLeft[1][1]
    IN  [inline EXCEPT
            !.paddingLeft = Some(<<had + measure.nuWidth + measure.paddingRight, "px">>),
            !.boxSizing = Some("border-box"),
            !.backgroundRepeat = Some("no-repeat"),
            !.backgroundAttachment = Some("local"),
            !.backgroundSize = Some(<<measure.nuWidth, "px", "auto">>),
            !.backgroundImage = Some(<<"url", dataURL>>)]

\* Nu.setStyle(measure, dataURL): the host's inline style after
\* "cssText += ...", a later declaration replacing an earlier one
setStyle(inline, measure, dataURL) ==
    [inline EXCEPT
        !.paddingLeft = Some(<<measure.nuWidth + measure.paddingRight, "px">>),
        !.boxSizing = Some("border-box"),
        !.backgroundRepeat = Some("no-repeat"),
        !.backgroundAttachment = Some("local"),
        !.backgroundSize = Some(<<measure.nuWidth, "px", "auto">>),
        !.backgroundImage = Some(<<"url", dataURL>>)]

\* Nu.drawLine(measure, index, lineHeight, fontSize): the fillText call; the
\* vertical position is kept as twice its value (y2), (lineHeight + fontSize) / 2
\* being a half-integer
drawLine(canvas, dpr, measure, index, lineHeight, fontSize) ==
    LET x == canvas.width - measure.nuPadding * dpr * 2
        y2 == 2 * (measure.paddingTop * dpr + lineHeight * index) + (lineHeight + fontSize)
    IN  [text |-> NumberToString(index + 1), x |-> x, y2 |-> y2]

\* canvas.toDataURL(): an encoding of what was painted
toDataURL(canvas) ==
    [type |-> "image/png", width |-> canvas.width, height |-> canvas.height,
     rect |-> canvas.rect, fillStyle |-> canvas.fillStyle, textAlign |-> canvas.textAlign,
     font |-> canvas.font, texts |-> canvas.texts]

\* handleRender() without "this.styleMutation.set(css, el)"
handleRenderNoCapture(nu, css, elAttrs, scrollHeight, inline) ==
    LET dpr == nu.dpr
        ensured == ensureStyles(nu, elAttrs)
        styles == ensured.result
        measure == getMeasure(css, styles)
        width == measure.nuWidth * dpr
        height == scrollHeight * dpr
        fontSizeDPR == measure.fontSize * dpr
        lineHeightDPR == measure.lineHeight * dpr
        blank == [NewCanvas EXCEPT !.width = width, !.height = height]
        canvas == [blank EXCEPT
                      !.rect = Some([x |-> 0, y |-> 0, w |-> width, h |-> height,
                                     fillStyle |-> styles.numberBgColor]),
                      !.fillStyle = styles.numberColor,
                      !.textAlign = "end",
                      !.font = <<<<fontSizeDPR, "px">>, css.fontFamily>>,
                      !.texts = [k \in 1..MathCeil(scrollHeight, measure.lineHeight) |->
                                    drawLine(blank, dpr, measure, k - 1, lineHeightDPR, fontSizeDPR)]]
    IN  [nu |-> [nu EXCEPT !.styles = ensured.styles, !.canvas = canvas],
         inline |-> setStyle(inline, measure, toDataURL(canvas)),
         measure |-> measure, styles |-> styles]

\* Nu.handleRender(): the instance and the host's inline style afterwards; measure
\* and styles are returned for the history variables
handleRender(nu, css, elAttrs, scrollHeight, inline) ==
    LET dpr == nu.dpr
        ensured == ensureStyles(nu, elAttrs)
        styles == ensured.result
        measure == getMeasure(css, styles)
        sm == StyleMutationSet(nu.styleMutation, css, elAttrs)
        width == measure.nuWidth * dpr
        height == scrollHeight * dpr
        fontSizeDPR == measure.fontSize * dpr
        fontSize == <<fontSizeDPR, "px">>
        lineHeightDPR == measure.lineHeight * dpr
        lines == MathCeil(scrollHeight, measure.lineHeight)
        blank == [NewCanvas EXCEPT !.width = width, !.height = height]
        canvas == [blank EXCEPT
                      !.rect = Some([x |-> 0, y |-> 0, w |-> width, h |-> height,
                                     fillStyle |-> styles.numberBgColor]),
                      !.fillStyle = styles.numberColor,
                      !.textAlign = "end",
                      !.font = <<fontSize, css.fontFamily>>,
                      !.texts = [k \in 1..lines |->
                                    drawLine(blank, dpr, measure, k - 1, lineHeightDPR, fontSizeDPR)]]
    IN  [nu |-> [nu EXCEPT !.styles = ensured.styles, !.styleMutation = sm, !.canvas = canvas],
         inline |-> setStyle(inline, measure, toDataURL(canvas)),
         measure |-> measure, styles |-> styles]

\* Whether "lines = Math.ceil(scrollHeight / measure.lineHeight)" is Infinity in
\* a pass of nu, so that the loop "for (index = 0; index < lines; index++)"
\* does not end: the measured line height is 0 and scrollHeight is not.
linesInfinite(nu, css, elAttrs, scrollHeight) ==
    getMeasure(css, ensureStyles(nu, elAttrs).result).lineHeight = 0 /\ scrollHeight > 0

\* handleRender() as far as it gets when lines is Infinity: the statements before
\* the loop have run, the loop draws numerals without end (none of them kept
\* here), and toDataURL and setStyle are never reached.
handleRenderLoops(nu, css, elAttrs, scrollHeight) ==
    LET ensured == ensureStyles(nu, elAttrs)
        styles == ensured.result
        measure == getMeasure(css, styles)
        width == measure.nuWidth * nu.dpr
        height == scrollHeight * nu.dpr
        blank == [NewCanvas EXCEPT !.width = width, !.height = height]
    IN  [nu EXCEPT
            !.styles = ensured.styles,
            !.styleMutation = StyleMutationSet(nu.styleMutation, css, elAttrs),
            !.canvas = [blank EXCEPT
                           !.rect = Some([x |-> 0, y |-> 0, w |-> width, h |-> height,
                                          fillStyle |-> styles.numberBgColor]),
                           !.fillStyle = styles.numberColor,
                           !.textAlign = "end",
                           !.font = <<<<measure.fontSize * nu.dpr, "px">>, css.fontFamily>>]]

\* The statements of handleRender that can throw, in program order.
handleRenderSteps ==
    <<"getComputedStyle", "ensureStyles", "getMeasure", "styleMutation.set", "canvas.width",
      "fillRect", "font", "fillText", "toDataURL", "setStyle">>

\* The position of statement step in sequence steps.
StepIndex(steps, step) == CHOOSE k \in DOMAIN steps : steps[k] = step

\* handleRender() when statement step throws: the statements before it (in the
\* order steps) have run, step and those after it have not; the instance and
\* the host's inline style as the pass leaves them. A throw of fillText is one
\* of its first call.
handleRenderThrowsIn(steps, nu, css, elAttrs, scrollHeight, inline, step) ==
    LET done(st) == StepIndex(steps, st) < StepIndex(steps, step)
        painted(old, full) ==
            LET blank == [NewCanvas EXCEPT !.width = full.width, !.height = full.height]
                c1 == IF done("canvas.width") THEN blank ELSE old
                c2 == IF done("fillRect")
                      THEN [c1 EXCEPT !.rect = full.rect, !.fillStyle = full.rect[1].fillStyle]
                      ELSE c1
                c3 == IF done("font")
                      THEN [c2 EXCEPT !.fillStyle = full.fillStyle, !.textAlign = full.textAlign,
                                      !.font = full.font]
                      ELSE c2
            IN  IF done("fillText") THEN [c3 EXCEPT !.texts = full.texts] ELSE c3
        partial(r) ==
            [nu |-> [nu EXCEPT !.styles = IF done("ensureStyles") THEN r.nu.styles ELSE @,
                               !.styleMutation = IF done("styleMutation.set") THEN r.nu.styleMutation ELSE @,
                               !.canvas = painted(@, r.nu.canvas)],
             inline |-> IF done("setStyle") THEN r.inline ELSE inline]
    IN  partial(handleRender(nu, css, elAttrs, scrollHeight, inline))

\* The pass with the host style written before the raster is painted.
handleRenderThrowsWriteFirst(nu, css, elAttrs, scrollHeight, inline, step) ==
    handleRenderThrowsIn(<<"getComputedStyle", "ensureStyles", "getMeasure", "setStyle",
                           "styleMutation.set", "canvas.width", "fillRect", "font", "fillText",
                           "toDataURL">>,
                         nu, css, elAttrs, scrollHeight, inline, step)

\* Nu.handleRender() when statement step throws.
handleRenderThrows(nu, css, elAttrs, scrollHeight, inline, step) ==
    handleRenderThrowsIn(handleRenderSteps, nu, css, elAttrs, scrollHeight, inline, step)

\* render() without clearTimeout's effect on the delay: a pending timer keeps
\* its deadline
renderKeepsDeadline(nu) == IF nu.timeout = None THEN [nu EXCEPT !.timeout = Some(Wait)] ELSE nu

\* The timers of one debounce closure: the remaining delays of the armed timers
\* that its setTimeout calls created, oldest first; the closure's variable
\* "timeout" names the one created last, or a timer that has fired, or nothing.
\* clearTimeout(timeout) disarms the timer the variable names, if it is armed.
clearTimeout(timers) == IF timers = <<>> THEN <<>> ELSE SubSeq(timers, 1, Len(timers) - 1)
\* timeout = setTimeout(callback, wait)
setTimeout(timers, wait) == Append(timers, wait)

\* render() without "clearTimeout(timeout)"
renderNoClear(nu) == [nu EXCEPT !.timeout = setTimeout(@, Wait)]

\* The function debounce() returns, called as nu.render(): clearTimeout, setTimeout
render(nu) == [nu EXCEPT !.timeout = setTimeout(clearTimeout(@), Wait)]

\* The timer's callback with setInterval in place of setTimeout: it stays armed
timerCallbackRepeats(nu, css, elAttrs, scrollHeight, inline) ==
    LET r == handleRender(nu, css, elAttrs, scrollHeight, inline)
    IN  [r EXCEPT !.nu = [r.nu EXCEPT !.timeout = Some(Wait)]]

\* The timer's callback painting the height of the previous pass instead of
\* reading el.scrollHeight again
timerCallbackStaleHeight(nu, css, elAttrs, scrollHeight, inline) ==
    LET r == handleRender(nu, css, elAttrs,
                          IF nu.canvas.rect = None THEN scrollHeight
                          ELSE nu.canvas.height \div nu.dpr, inline)
    IN  [r EXCEPT !.nu = [r.nu EXCEPT !.timeout = None]]

\* The timer's callback of debounce(): func.call(ctx); timeout = null
timerCallback(nu, css, elAttrs, scrollHeight, inline) ==
    LET r == handleRender(nu, css, elAttrs, scrollHeight, inline)
    IN  [r EXCEPT !.nu = [r.nu EXCEPT !.timeout = None]]

\* The timer's callback of debounce() when func.call(ctx) throws: "timeout = null"
\* is not reached; the variable keeps the id of the timer that has fired, which
\* a later clearTimeout ignores, and no timer is armed.
timerCallbackThrows(nu, css, elAttrs, scrollHeight, inline, step) ==
    LET r == handleRenderThrows(nu, css, elAttrs, scrollHeight, inline, step)
    IN  [r EXCEPT !.nu = [r.nu EXCEPT !.timeout = None]]

\* ------------------------------------------------------------- the state
VARIABLES
    document,          \* the textareas of the page
    devicePixelRatio,  \* window.devicePixelRatio
    css,               \* getComputedStyle(h) of each host: the tracked properties
    attrs,             \* the attributes of each host
    scrollHeight,      \* h.scrollHeight
    inlineStyle,       \* h.style, as far as setStyle writes it
    nus,               \* the Nu instances, in order of construction
    mutationNuMap,     \* nuMutationObserver.nuMap: host -> index in nus, 0 for none
    resizeNuMap,       \* nuResizeObserver.nuMap
    running,           \* the instance whose handleRender has begun and not returned, 0 for none
    left,              \* external events still to come in this run
    hist,              \* history, per instance: requests, executions, timing
    last               \* history: the step that led to this state

vars == <<document, devicePixelRatio, css, attrs, scrollHeight, inlineStyle, nus,
          mutationNuMap, resizeNuMap, running, left, hist, last>>

Nus == DOMAIN nus

\* What a render reads of its host.
HostState(h) == [css |-> css[h], attrs |-> attrs[h], scrollHeight |-> scrollHeight[h]]

\* --------------------------------------------------------- the observers
\* nu.render() called from a handler: st is [nus, rendered], rendered the
\* instances whose render() the handler has called so far
CallRender(st, i) ==
    [nus |-> [st.nus EXCEPT ![i] = render(@)], rendered |-> Append(st.rendered, i)]

\* The loop's turn taking the first registered instance, whatever the target
OnMutationRecordFirst(st, nuMap, cssNow, attrsNow, record) ==
    LET all == {nuMap[h] : h \in DOMAIN nuMap} \ {0}
        i == IF all = {} THEN 0 ELSE CHOOSE x \in all : \A y \in all : x <= y
    IN  IF record.type # "attributes" \/ i = 0 THEN st
        ELSE LET nu == st.nus[i]
                 d == IF record.attributeName = "style"
                      THEN styleDiff(nu.styleMutation, cssNow[nu.el])
                      ELSE dataDiff(nu.styleMutation, attrsNow[nu.el])
                 st1 == [st EXCEPT !.nus[i].styleMutation = d.sm]
             IN  IF d.result THEN CallRender(st1, i) ELSE st1

\* The loop's turn asking both diffs, whatever the attribute
OnMutationRecordBothDiffs(st, nuMap, cssNow, attrsNow, record) ==
    LET i == nuMap[record.target]
    IN  IF record.type # "attributes" \/ i = 0 THEN st
        ELSE LET nu == st.nus[i]
                 d1 == styleDiff(nu.styleMutation, cssNow[nu.el])
                 d2 == dataDiff(d1.sm, attrsNow[nu.el])
                 st1 == [st EXCEPT !.nus[i].styleMutation = d2.sm]
             IN  IF d1.result \/ d2.result THEN CallRender(st1, i) ELSE st1

\* One turn of the loop of NuMutationObserver's callback.
OnMutationRecord(st, nuMap, cssNow, attrsNow, record) ==
    LET i == nuMap[record.target]
    IN  IF record.type # "attributes" \/ i = 0 THEN st
        ELSE LET nu == st.nus[i]
                 d == IF record.attributeName = "style"
                      THEN styleDiff(nu.styleMutation, cssNow[nu.el])
                      ELSE dataDiff(nu.styleMutation, attrsNow[nu.el])
                 st1 == [st EXCEPT !.nus[i].styleMutation = d.sm]
             IN  IF d.result THEN CallRender(st1, i) ELSE st1

\* NuMutationObserver's callback on a list of mutation records.
RECURSIVE mutationCallback(_, _, _, _, _)
mutationCallback(st, nuMap, cssNow, attrsNow, mutationsList) ==
    IF mutationsList = <<>> THEN st
    ELSE mutationCallback(OnMutationRecord(st, nuMap, cssNow, attrsNow, Head(mutationsList)),
                          nuMap, cssNow, attrsNow, Tail(mutationsList))

\* The resize callback rendering only an instance that has painted nothing yet
RECURSIVE resizeCallbackOnce(_, _, _)
resizeCallbackOnce(st, nuMap, entries) ==
    IF entries = <<>> THEN st
    ELSE LET i == nuMap[Head(entries).target]
         IN  resizeCallbackOnce(IF i # 0 /\ st.nus[i].canvas.rect = None
                                THEN CallRender(st, i) ELSE st, nuMap, Tail(entries))

\* The resize callback rendering every registered instance, whatever the target
RECURSIVE resizeCallbackAll(_, _, _)
resizeCallbackAll(st, nuMap, entries) ==
    IF entries = <<>> THEN st
    ELSE LET all == {nuMap[h] : h \in DOMAIN nuMap} \ {0}
             i == IF all = {} THEN 0 ELSE CHOOSE x \in all : \A y \in all : x <= y
         IN  resizeCallbackAll(IF i # 0 THEN CallRender(st, i) ELSE st, nuMap, Tail(entries))

\* NuResizeObserver's callback on a list of entries.
RECURSIVE resizeCallback(_, _, _)
resizeCallback(st, nuMap, entries) ==
    IF entries = <<>> THEN st
    ELSE LET i == nuMap[Head(entries).target]
         IN  resizeCallback(IF i # 0 THEN CallRender(st, i) ELSE st, nuMap, Tail(entries))

\* The listeners el.addEventListener("input", this.render) has bound to host h,
\* in the order they were added.
RECURSIVE inputListeners(_, _)
inputListeners(ns, h) ==
    IF ns = <<>> THEN <<>>
    ELSE LET front == inputListeners(SubSeq(ns, 1, Len(ns) - 1), h)
         IN  IF ns[Len(ns)].el = h THEN Append(front, Len(ns)) ELSE front

\* The dispatch of an input event to host h.
RECURSIVE dispatchInput(_, _)
dispatchInput(st, listeners) ==
    IF listeners = <<>> THEN st
    ELSE dispatchInput(CallRender(st, Head(listeners)), Tail(listeners))

\* A mutation record of attribute name on host h.
AttributeRecord(h, name) == [type |-> "attributes", attributeName |-> name, target |-> h]

\* ----------------------------------------------------------- the history
\* The step that led to a state: the operation (an attribute name for a change
\* of that attribute), its host, the instance it created or fired (0 for none),
\* whether it changed the value it set, whether the value the observer then
\* read differed from the snapshot of the host's registered instance, and the
\* instances whose render() its handlers called, in order.
Last(op, el, nu, changed, diff, rendered) ==
    [op |-> op, el |-> el, nu |-> nu, changed |-> changed, diff |-> diff, rendered |-> rendered]

\* Whether host state (css, attrs) differs, in one of the names, from the
\* snapshot the instance registered for h in nuMap holds.
Differs(nuMap, h, now, part, names) ==
    /\ nuMap[h] # 0
    /\ \E n \in names : ~LooseEq(now[n], nus[nuMap[h]].styleMutation[part][n])

NewHist ==
    [requests |-> 0, executions |-> 0, throws |-> 0, sinceRequest |-> 0, near |-> TRUE, far |-> TRUE,
     fireGap |-> 0, burstStart |-> None, fireState |-> None,
     fireMeasure |-> None, fireStyles |-> None, fireInline |-> None, prevFire |-> None]

\* hist after one call of render() of instance i; idle tells whether i's timer
\* was unarmed when the handler began, state is what i's host looks like
LogRequest(hs, i, idle, state) ==
    LET h == hs[i]
        first == h.requests = 0
    IN  [hs EXCEPT ![i] =
            [h EXCEPT !.requests = @ + 1,
                      !.near = @ /\ (first \/ h.sinceRequest < Wait),
                      !.far = @ /\ (first \/ h.sinceRequest > Wait),
                      !.sinceRequest = 0,
                      !.burstStart = IF idle THEN Some(state) ELSE @]]

RECURSIVE LogRequests(_, _, _, _)
LogRequests(hs, rendered, before, states) ==
    IF rendered = <<>> THEN hs
    ELSE LET i == Head(rendered)
         IN  LogRequests(LogRequest(hs, i, before[i].timeout = None, states[before[i].el]),
                         Tail(rendered), before, states)

\* --------------------------------------------------------------- Init
\* init(): nut(el) for every textarea of class "nut", in document order
RECURSIVE initNus(_, _)
initNus(els, dpr) ==
    IF els = <<>> THEN <<>> ELSE <<NewNu(Head(els), None, dpr)>> \o initNus(Tail(els), dpr)

\* The host at index k of nus is registered under k in both observers.
RECURSIVE observed(_, _)
observed(ns, h) ==
    IF ns = <<>> THEN 0 ELSE IF ns[Len(ns)].el = h THEN Len(ns)
    ELSE observed(SubSeq(ns, 1, Len(ns) - 1), h)

\* The state after the module has loaded in a page whose textareas are doc,
\* those in nutClass (a sequence, in document order) having class "nut".
InitWith(doc, nutClass, events) ==
    /\ document = doc
    /\ devicePixelRatio \in DevicePixelRatios
    /\ css = [h \in Hosts |-> DefaultCss]
    /\ attrs = [h \in Hosts |-> DefaultAttrs]
    /\ scrollHeight = [h \in Hosts |-> 100]
    /\ inlineStyle = [h \in Hosts |-> NoInlineStyle]
    /\ nus = initNus(nutClass, devicePixelRatio)
    /\ mutationNuMap = [h \in Hosts |-> observed(nus, h)]
    /\ resizeNuMap = [h \in Hosts |-> observed(nus, h)]
    /\ running = 0
    /\ left = events
    /\ hist = [i \in DOMAIN nus |-> NewHist]
    /\ last = Last("init", "", 0, FALSE, FALSE, <<>>)

\* A page with one textarea, of class "nut" or not.
Init == \E nutClass \in {<<>>, <<"h1">>} : InitWith({"h1"}, nutClass, MaxEvents)

\* A page with two textareas, and one event less.
InitTwo ==
    \E nutClass \in {<<>>, <<"h1">>, <<"h1", "h2">>} : InitWith(Hosts, nutClass, MaxEvents - 1)

\* ------------------------------------------------------------- actions
\* nut() whose watch() leaves out nuMutationObserver.observe(this)
AttachResizeOnly(h, styles) ==
    /\ running = 0
    /\ left > 0
    /\ left' = left - 1
    /\ nus' = Append(nus, NewNu(h, styles, devicePixelRatio))
    /\ resizeNuMap' = [resizeNuMap EXCEPT ![h] = Len(nus) + 1]
    /\ hist' = Append(hist, NewHist)
    /\ last' = Last("attach", h, Len(nus) + 1, FALSE, FALSE, <<>>)
    /\ UNCHANGED <<running, document, devicePixelRatio, css, attrs, scrollHeight, inlineStyle, mutationNuMap>>

\* nut(el, styles): new Nu(el, styles); nu.watch()
Attach(h, styles) ==
    /\ running = 0
    /\ left > 0
    /\ left' = left - 1
    /\ nus' = Append(nus, NewNu(h, styles, devicePixelRatio))
    /\ resizeNuMap' = [resizeNuMap EXCEPT ![h] = Len(nus) + 1]
    /\ mutationNuMap' = [mutationNuMap EXCEPT ![h] = Len(nus) + 1]
    /\ hist' = Append(hist, NewHist)
    /\ last' = Last("attach", h, Len(nus) + 1, FALSE, FALSE, <<>>)
    /\ UNCHANGED <<running, document, devicePixelRatio, css, attrs, scrollHeight, inlineStyle>>

\* The user edits the text of host h: its scrollHeight becomes s and an input
\* event is dispatched to it.
Input(h, s) ==
    /\ running = 0
    /\ left > 0
    /\ left' = left - 1
    /\ scrollHeight' = [scrollHeight EXCEPT ![h] = s]
    /\ LET st == dispatchInput([nus |-> nus, rendered |-> <<>>], inputListeners(nus, h))
           states == [e \in Hosts |-> [css |-> css[e], attrs |-> attrs[e], scrollHeight |-> scrollHeight'[e]]]
       IN  /\ nus' = st.nus
           /\ hist' = LogRequests(hist, st.rendered, nus, states)
           /\ last' = Last("input", h, 0, s # scrollHeight[h], FALSE, st.rendered)
    /\ UNCHANGED <<running, document, devicePixelRatio, css, attrs, inlineStyle, mutationNuMap, resizeNuMap>>

\* The content box of host h changes size, its scrollHeight becomes s, and the
\* ResizeObserver reports the host.
Resize(h, s) ==
    /\ running = 0
    /\ left > 0
    /\ left' = left - 1
    /\ scrollHeight' = [scrollHeight EXCEPT ![h] = s]
    /\ LET st == resizeCallback([nus |-> nus, rendered |-> <<>>], resizeNuMap, <<[target |-> h]>>)
           states == [e \in Hosts |-> [css |-> css[e], attrs |-> attrs[e], scrollHeight |-> scrollHeight'[e]]]
       IN  /\ nus' = st.nus
           /\ hist' = LogRequests(hist, st.rendered, nus, states)
           /\ last' = Last("resize", h, 0, s # scrollHeight[h], FALSE, st.rendered)
    /\ UNCHANGED <<running, document, devicePixelRatio, css, attrs, inlineStyle, mutationNuMap, resizeNuMap>>

\* The style attribute of host h is set so that tracked property p computes to
\* value v (v may be its present value: a change of untracked properties only);
\* the MutationObserver reports the change.
SetStyleAttribute(h, p, v) ==
    /\ running = 0
    /\ left > 0
    /\ left' = left - 1
    /\ v # css[h][p] \/ p = "fontFamily"
    /\ css' = [css EXCEPT ![h][p] = v]
    /\ LET st == mutationCallback([nus |-> nus, rendered |-> <<>>], mutationNuMap, css', attrs,
                                  <<AttributeRecord(h, "style")>>)
           states == [e \in Hosts |-> [css |-> css'[e], attrs |-> attrs[e], scrollHeight |-> scrollHeight[e]]]
       IN  /\ nus' = st.nus
           /\ hist' = LogRequests(hist, st.rendered, nus, states)
           /\ last' = Last("style", h, 0, v # css[h][p],
                           Differs(mutationNuMap, h, css'[h], "prevStyle", StyleProps), st.rendered)
    /\ UNCHANGED <<running, document, devicePixelRatio, attrs, scrollHeight, inlineStyle, mutationNuMap, resizeNuMap>>

\* Attribute a of host h is set to v, or removed (v = Null). The MutationObserver
\* reports it when its attributeFilter lists a.
SetAttribute(h, a, v) ==
    /\ running = 0
    /\ left > 0
    /\ left' = left - 1
    /\ v # attrs[h][a]
    /\ attrs' = [attrs EXCEPT ![h][a] = v]
    /\ LET records == IF a \in attributeFilter THEN <<AttributeRecord(h, a)>> ELSE <<>>
           st == mutationCallback([nus |-> nus, rendered |-> <<>>], mutationNuMap, css, attrs',
                                  records)
           states == [e \in Hosts |-> [css |-> css[e], attrs |-> attrs'[e], scrollHeight |-> scrollHeight[e]]]
       IN  /\ nus' = st.nus
           /\ hist' = LogRequests(hist, st.rendered, nus, states)
           /\ last' = Last(a, h, 0, TRUE,
                           Differs(mutationNuMap, h, attrs'[h], "prevData", DataAttrs), st.rendered)
    /\ UNCHANGED <<running, document, devicePixelRatio, css, scrollHeight, inlineStyle, mutationNuMap, resizeNuMap>>

\* A script sets the value of host h: its scrollHeight becomes s, and no event
\* and no observer reports it.
SetValue(h, s) ==
    /\ running = 0
    /\ left > 0
    /\ left' = left - 1
    /\ s # scrollHeight[h]
    /\ scrollHeight' = [scrollHeight EXCEPT ![h] = s]
    /\ last' = Last("value", h, 0, TRUE, FALSE, <<>>)
    /\ UNCHANGED <<running, document, devicePixelRatio, css, attrs, inlineStyle, nus, mutationNuMap,
                   resizeNuMap, hist>>

\* The timer of instance i fires: handleRender runs, then the MutationObserver
\* reports the style attribute that setStyle has written.
Timeout(i) ==
    /\ running = 0
    /\ nus[i].timeout = Some(0)
    /\ ~linesInfinite(nus[i], css[nus[i].el], attrs[nus[i].el], scrollHeight[nus[i].el])
    /\ LET el == nus[i].el
           fired(r) ==
               [hist EXCEPT ![i] =
                   [@ EXCEPT !.executions = @ + 1, !.fireGap = hist[i].sinceRequest,
                             !.fireState = Some(HostState(el)),
                             !.fireMeasure = Some(r.measure),
                             !.fireStyles = Some(r.styles),
                             !.fireInline = Some(r.inline),
                             !.prevFire =
                                 IF hist[i].executions = 0 THEN None
                                 ELSE Some([state |-> hist[i].fireState[1],
                                            canvas |-> nus[i].canvas,
                                            inline |-> hist[i].fireInline[1]])]]
           reported(r, st) ==
               /\ nus' = st.nus
               /\ inlineStyle' = [inlineStyle EXCEPT ![el] = r.inline]
               /\ hist' = LogRequests(fired(r), st.rendered, [nus EXCEPT ![i] = r.nu],
                                       [e \in Hosts |-> HostState(e)])
               /\ last' = Last("timeout", el, i, FALSE, FALSE, st.rendered)
           returned(r) ==
               reported(r, mutationCallback([nus |-> [nus EXCEPT ![i] = r.nu], rendered |-> <<>>],
                                            mutationNuMap, css, attrs,
                                            <<AttributeRecord(el, "style")>>))
       IN  returned(timerCallback(nus[i], css[el], attrs[el], scrollHeight[el], inlineStyle[el]))
    /\ UNCHANGED <<running, document, devicePixelRatio, css, attrs, scrollHeight, mutationNuMap, resizeNuMap, left>>

\* The timer of instance i fires and handleRender throws at statement step: the
\* exception leaves the timer's callback; setStyle has not run, so there is no
\* style mutation to report.
TimeoutThrows(i, step) ==
    /\ running = 0
    /\ nus[i].timeout = Some(0)
    /\ LET el == nus[i].el
           thrown == [hist EXCEPT ![i] = [@ EXCEPT !.throws = 1, !.fireGap = hist[i].sinceRequest]]
           reported(r, st) ==
               /\ nus' = st.nus
               /\ inlineStyle' = [inlineStyle EXCEPT ![el] = r.inline]
               /\ hist' = LogRequests(thrown, st.rendered, [nus EXCEPT ![i] = r.nu],
                                       [e \in Hosts |-> HostState(e)])
               /\ last' = Last(step, el, i, r.inline # inlineStyle[el], FALSE, st.rendered)
           unwound(r) ==
               reported(r, mutationCallback([nus |-> [nus EXCEPT ![i] = r.nu], rendered |-> <<>>],
                                            mutationNuMap, css, attrs,
                                            IF r.inline = inlineStyle[el] THEN <<>>
                                            ELSE <<AttributeRecord(el, "style")>>))
       IN  unwound(timerCallbackThrows(nus[i], css[el], attrs[el], scrollHeight[el],
                                     inlineStyle[el], step))
    /\ UNCHANGED <<running, document, devicePixelRatio, css, attrs, scrollHeight, mutationNuMap, resizeNuMap, left>>

\* The timer of instance i fires and the loop of handleRender does not end: the
\* callback never returns, and no other handler of the page runs any more.
TimeoutLoops(i) ==
    /\ running = 0
    /\ nus[i].timeout = Some(0)
    /\ linesInfinite(nus[i], css[nus[i].el], attrs[nus[i].el], scrollHeight[nus[i].el])
    /\ running' = i
    /\ LET el == nus[i].el
       IN  nus' = [nus EXCEPT ![i] = [handleRenderLoops(@, css[el], attrs[el], scrollHeight[el])
                                        EXCEPT !.timeout = None]]
    /\ last' = Last("loop", nus[i].el, i, FALSE, FALSE, <<>>)
    /\ UNCHANGED <<document, devicePixelRatio, css, attrs, scrollHeight, inlineStyle,
                   mutationNuMap, resizeNuMap, left, hist>>

\* Time passes: by TimeStep, or less when a timer is due sooner. A due timer
\* fires before time goes on.
Armed == {i \in Nus : nus[i].timeout # None}
Min(S) == CHOOSE x \in S : \A y \in S : x <= y
Tick ==
    /\ running = 0
    /\ \A i \in Armed : nus[i].timeout[1] > 0
    /\ \E i \in Nus : nus[i].timeout # None \/ (hist[i].requests > 0 /\ hist[i].sinceRequest <= Wait)
    /\ LET d == Min({TimeStep} \cup {nus[i].timeout[1] : i \in Armed})
       IN  /\ nus' = [i \in Nus |->
                        IF nus[i].timeout = None THEN nus[i]
                        ELSE [nus[i] EXCEPT !.timeout = Some(nus[i].timeout[1] - d)]]
           /\ hist' = [i \in Nus |->
                        [hist[i] EXCEPT !.sinceRequest = Min({@ + d, Wait + 1})]]
    /\ last' = Last("tick", "", 0, FALSE, FALSE, <<>>)
    /\ UNCHANGED <<running, document, devicePixelRatio, css, attrs, scrollHeight, inlineStyle, mutationNuMap,
                   resizeNuMap, left>>

Next ==
    \/ \E h \in document, styles \in StylesArgs : Attach(h, styles)
    \/ \E h \in document, s \in ScrollHeights : Input(h, s)
    \/ \E h \in document, s \in ScrollHeights : Resize(h, s)
    \/ \E h \in document, p \in StyleProps : \E v \in {DefaultCss[p], OtherCss[p]} :
          SetStyleAttribute(h, p, v)
    \/ \E h \in document, a \in AttrNames : \E v \in AttrValues[a] : SetAttribute(h, a, v)
    \/ \E h \in document, s \in ScrollHeights : SetValue(h, s)
    \/ \E i \in Nus : Timeout(i)
    \/ Tick

Spec == Init /\ [][Next]_vars

SpecTwo == InitTwo /\ [][Next]_vars

\* A page with two textareas, both of class "nut"; the events are input events
\* and resize notifications that change the height or not, and changes of the
\* style attribute (line height, or no tracked property) and of two attributes
\* (data-nut-color and one the observer does not list).
InitPair == InitWith(Hosts, <<"h1", "h2">>, MaxEvents)

NextPair ==
    \/ \E h \in document : Input(h, 140)
    \/ \E h \in document : Resize(h, 100)
    \/ \E h \in document, p \in {"lineHeight", "fontFamily"} :
          \E v \in {DefaultCss[p], OtherCss[p]} : SetStyleAttribute(h, p, v)
    \/ \E h \in document, a \in {dataAttrsMap.Color, OtherAttr} :
          \E v \in AttrValues[a] : SetAttribute(h, a, v)
    \/ \E i \in Nus : Timeout(i)
    \/ Tick

SpecPair == InitPair /\ [][NextPair]_vars

\* A page with one textarea, of class "nut"; the events are
\* input events, resize notifications and changes of the style attribute, and
\* a render pass may throw.
InitNut == InitWith({"h1"}, <<"h1">>, MaxEvents)

NextThrows ==
    \/ \E h \in document, s \in ScrollHeights : Input(h, s)
    \/ \E h \in document, s \in ScrollHeights : Resize(h, s)
    \/ \E h \in document, p \in StyleProps : \E v \in {DefaultCss[p], OtherCss[p]} :
          SetStyleAttribute(h, p, v)
    \/ \E i \in Nus : Timeout(i)
    \/ \E i \in Nus, step \in Range(handleRenderSteps) : TimeoutThrows(i, step)
    \/ Tick

SpecThrows == InitNut /\ [][NextThrows]_vars

\* A page with one textarea, of class "nut", whose line height may also be set
\* to 0; the events are input events, resize notifications and changes of the
\* line height through the style attribute.
LineHeights == {DefaultCss.lineHeight, OtherCss.lineHeight, "0px"}

NextLineHeight ==
    \/ \E h \in document, s \in ScrollHeights : Input(h, s)
    \/ \E h \in document, s \in ScrollHeights : Resize(h, s)
    \/ \E h \in document, v \in LineHeights : SetStyleAttribute(h, "lineHeight", v)
    \/ \E i \in Nus : Timeout(i)
    \/ \E i \in Nus : TimeoutLoops(i)
    \/ Tick

SpecLineHeight == InitNut /\ [][NextLineHeight]_vars

\* ------------------------------------------------------------ properties
Pending(i) == nus[i].timeout # None

\* C1: for one instance, N >= 1 render requests each arriving less than Wait
\* after the previous one result in exactly one execution of handleRender (none
\* while the last request's interval is still running); N requests each more
\* than Wait apart result in exactly N executions (N - 1 while the N-th is
\* pending).
C1_Debounce ==
    \A i \in Nus :
        LET h == hist[i]
        IN  h.requests >= 1 =>
                /\ h.near => h.executions = (IF Pending(i) THEN 0 ELSE 1)
                /\ h.far => h.executions = h.requests - (IF Pending(i) THEN 1 ELSE 0)

\* C1 witness: a burst of at least two requests, each less than Wait after the
\* previous one, has been rendered once.
C1_Witness ==
    \E i \in Nus :
        /\ hist[i].requests >= 2 /\ hist[i].near
        /\ ~Pending(i) /\ hist[i].executions = 1

\* Two requests more than Wait apart, both rendered.
C1_WitnessFar ==
    \E i \in Nus :
        /\ hist[i].requests >= 2 /\ hist[i].far
        /\ ~Pending(i) /\ hist[i].executions = hist[i].requests

\* C3: no execution of handleRender happens less than Wait after the most
\* recent render request of its instance: an armed timer always has exactly
\* Wait minus the time since the last request left to run (a request restarts
\* the full interval), and every execution came Wait after the last request.
C3_QuietInterval ==
    \A i \in Nus :
        /\ Pending(i) => nus[i].timeout[1] = Wait - hist[i].sinceRequest
        /\ hist[i].executions >= 1 => hist[i].fireGap >= Wait
        /\ (last.op = "timeout" /\ last.nu = i /\ i \notin Range(last.rendered))
              => hist[i].sinceRequest >= Wait

\* C3 witness: a second request has superseded a pending one; time has passed
\* since and nothing has executed.
C3_Witness ==
    \E i \in Nus :
        /\ hist[i].requests >= 2 /\ hist[i].executions = 0
        /\ Pending(i) /\ nus[i].timeout[1] < Wait /\ hist[i].sinceRequest > 0

\* The instance that has just fired, if the last step was a timer firing.
JustFired(i) == last.op = "timeout" /\ last.nu = i

\* The last step was the passing of time, which changes only the timers' delays
\* and the times since the last requests.
TimePassed == last.op = "tick"

\* C2: the render that executes for a burst reads the host's computed style,
\* attributes and scrollHeight as they are when the timer fires: right after
\* the firing, the raster has the host's present scrollHeight (times dpr), one
\* numeral per present line, the present font family, the present colour
\* attributes where they apply, and the snapshot holds the present style and
\* attributes; the state recorded at the firing is the present one.
C2_RendersCurrentState ==
    \A i \in Nus :
        JustFired(i) =>
            LET el == nus[i].el
                canvas == nus[i].canvas
                lineHeight == Px(css[el].lineHeight)
                n == Len(canvas.texts)
                override == nus[i].styles[1]
                color == attrs[el][dataAttrsMap.Color]
                bgColor == attrs[el][dataAttrsMap.BgColor]
            IN  /\ hist[i].fireState = Some(HostState(el))
                /\ canvas.height = scrollHeight[el] * nus[i].dpr
                /\ (n - 1) * lineHeight < scrollHeight[el] /\ scrollHeight[el] <= n * lineHeight
                /\ canvas.font[2] = css[el].fontFamily
                /\ ("numberColor" \notin DOMAIN override /\ color \notin {Null, ""})
                      => canvas.fillStyle = color
                /\ ("numberBgColor" \notin DOMAIN override /\ bgColor \notin {Null, ""})
                      => canvas.rect[1].fillStyle = bgColor
                /\ \A p \in StyleProps : nus[i].styleMutation.prevStyle[p] = css[el][p]
                /\ \A a \in DataAttrs : nus[i].styleMutation.prevData[a] = attrs[el][a]

\* C2 witness: a render has just executed for a burst during which the host's
\* scrollHeight changed after the burst's first request.
C2_Witness ==
    \E i \in Nus :
        /\ JustFired(i)
        /\ hist[i].burstStart # None
        /\ hist[i].burstStart[1].scrollHeight # scrollHeight[nus[i].el]

\* C4: styleDiff returns false when called right after set() with unchanged
\* values of the five tracked properties; it returns true the first time any
\* one of them differs from the snapshot; and it returns false again once set()
\* has been called with the new values. The first part is also checked on the
\* snapshot a render has just captured. (Checked in every state that a step
\* other than the passing of time has led to.)
C4_StyleDiff ==
    TimePassed \/ \A i \in Nus :
        LET el == nus[i].el
            c == css[el]
            captured == StyleMutationSet(nus[i].styleMutation, c, attrs[el])
        IN  /\ ~styleDiff(captured, c).result
            /\ JustFired(i) => ~styleDiff(nus[i].styleMutation, c).result
            /\ \A p \in StyleProps : \A v \in {DefaultCss[p], OtherCss[p]} \ {c[p]} :
                  LET c2 == [c EXCEPT ![p] = v]
                  IN  /\ styleDiff(captured, c2).result
                      /\ ~styleDiff(StyleMutationSet(captured, c2, attrs[el]), c2).result

\* C4 witness: a render has captured values of the tracked properties that are
\* not the ones the page loaded with, after a style diff reported the change.
C4_Witness ==
    \E i \in Nus :
        /\ JustFired(i) /\ hist[i].executions >= 2
        /\ css[nus[i].el] # DefaultCss
        /\ nus[i].styleMutation.prevStyle = css[nus[i].el]

\* The decimal numerals, by value.
Numerals ==
    <<"1", "2", "3", "4", "5", "6", "7", "8", "9", "10", "11", "12", "13", "14", "15", "16">>

\* C5: in every render pass with scrollHeight S and measured lineHeight L > 0
\* the number n of numerals drawn is ceil(S / L), that is (n - 1) * L < S <= n * L,
\* and the numerals are 1, 2, ..., n in this order; S = 100, L = 20 gives 1..5
\* and S = 140, L = 20 gives 1..7.
C5_Numerals ==
    \A i \in Nus :
        hist[i].executions >= 1 =>
            LET S == hist[i].fireState[1].scrollHeight
                L == hist[i].fireMeasure[1].lineHeight
                texts == nus[i].canvas.texts
                n == Len(texts)
            IN  /\ L > 0
                /\ (n - 1) * L < S /\ S <= n * L
                /\ \A k \in 1..n : texts[k].text = Numerals[k]
                /\ (S = 100 /\ L = 20) => n = 5
                /\ (S = 140 /\ L = 20) => n = 7

\* C5 witness: a pass in which S is no multiple of L and a numeral has two
\* digits.
C5_Witness ==
    \E i \in Nus :
        /\ hist[i].executions >= 1
        /\ hist[i].fireState[1].scrollHeight % hist[i].fireMeasure[1].lineHeight # 0
        /\ Len(nus[i].canvas.texts) >= 10

ColorAttr == dataAttrsMap.Color

\* The instance the attribute/style watcher has registered for host h, 0 for none.
Registered(h) == IF h \in Hosts THEN mutationNuMap[h] ELSE 0

\* C6 as claimed: for an attached host, a change of data-nut-color alone makes
\* exactly one render request, and the render that executes has the attribute's
\* value as its numeral fill colour; a change of an attribute that is neither
\* style nor a configuration attribute makes no render request.
C6_AsClaimed ==
    /\ (last.op = ColorAttr /\ Registered(last.el) # 0)
          => last.rendered = <<Registered(last.el)>>
    /\ last.op = OtherAttr => last.rendered = <<>>
    /\ \A i \in Nus :
          (JustFired(i) /\ attrs[nus[i].el][ColorAttr] \notin {Null, ""})
              => nus[i].canvas.fillStyle = attrs[nus[i].el][ColorAttr]

\* C6, amended: for an attached host whose instance has rendered at least once,
\* a change of data-nut-color alone makes exactly one render request, which arms
\* the timer with the full interval; the render that executes has the
\* attribute's value as its numeral fill colour when no numberColor override was
\* given at attach and the value is not empty, the override's value when one was
\* given, and the default #666 otherwise; a change of an attribute that is
\* neither style nor a configuration attribute makes no render request.
C6_ColorAttribute ==
    /\ (last.op = ColorAttr /\ Registered(last.el) # 0
        /\ hist[Registered(last.el)].executions >= 1)
          => /\ last.rendered = <<Registered(last.el)>>
             /\ nus[Registered(last.el)].timeout = Some(Wait)
    /\ last.op = OtherAttr => last.rendered = <<>>
    /\ \A i \in Nus :
          JustFired(i) =>
              LET override == nus[i].styles[1]
                  color == attrs[nus[i].el][ColorAttr]
              IN  nus[i].canvas.fillStyle =
                      IF "numberColor" \in DOMAIN override THEN override.numberColor
                      ELSE IF color \in {Null, ""} THEN "#666" ELSE color

\* C6 witness: an instance that had rendered with the default colour has just
\* rendered again, on the one request a change of data-nut-color alone made,
\* with the new colour.
C6_Witness ==
    \E i \in Nus :
        /\ JustFired(i) /\ hist[i].executions = 2 /\ hist[i].requests = 2
        /\ attrs[nus[i].el][ColorAttr] = "#c00" /\ nus[i].canvas.fillStyle = "#c00"
        /\ hist[i].prevFire[1].canvas.fillStyle = "#666"
        /\ hist[i].burstStart[1] =
              [hist[i].prevFire[1].state EXCEPT !.attrs[ColorAttr] = "#c00"]

\* C7: every resize notification for a registered host makes a render request
\* for that host's instance, which arms its timer with the full interval,
\* whatever the snapshot holds.
C7_ResizeUnconditional ==
    (last.op = "resize" /\ resizeNuMap[last.el] # 0)
        => /\ last.rendered = <<resizeNuMap[last.el]>>
           /\ nus[resizeNuMap[last.el]].timeout = Some(Wait)
           /\ hist[resizeNuMap[last.el]].sinceRequest = 0

\* C7 witness: a resize notification that changed nothing, for an instance whose
\* snapshot equals the host's present style and attributes, has armed the timer.
C7_Witness ==
    /\ last.op = "resize" /\ ~last.changed /\ resizeNuMap[last.el] # 0
    /\ LET i == resizeNuMap[last.el]
       IN  /\ hist[i].executions >= 1 /\ Pending(i)
           /\ \A p \in StyleProps : nus[i].styleMutation.prevStyle[p] = css[last.el][p]
           /\ \A a \in DataAttrs : nus[i].styleMutation.prevData[a] = attrs[last.el][a]

\* C8: after every render pass the padding-left written to the host is the
\* gutter width plus the host's right padding, in pixels, both as measured in
\* that pass (the resolved numberWidth and the computed padding-right), and the
\* background-size width written is the same gutter width.
C8_GutterPlacement ==
    \A i \in Nus :
        JustFired(i) =>
            LET el == nus[i].el
                m == hist[i].fireMeasure[1]
            IN  /\ m.nuWidth = Px(hist[i].fireStyles[1].numberWidth)
                /\ m.paddingRight = Px(css[el].paddingRight)
                /\ inlineStyle[el].paddingLeft = Some(<<m.nuWidth + m.paddingRight, "px">>)
                /\ inlineStyle[el].backgroundSize = Some(<<m.nuWidth, "px", "auto">>)

\* C8 witness: a pass with a gutter width and a right padding that are not the
\* defaults.
C8_Witness ==
    \E i \in Nus :
        /\ JustFired(i)
        /\ hist[i].fireMeasure[1].nuWidth = 32
        /\ hist[i].fireMeasure[1].paddingRight = 8
        /\ inlineStyle[nus[i].el].paddingLeft = Some(<<40, "px">>)

\* The operations that are events on a host.
EventOps == {"input", "resize", "style", "value"} \cup AttrNames

\* C9: attach registers the host with both watchers and binds the input event:
\* after an attach the new instance is the host's entry in both registries;
\* an input event on a host arms the timer of every instance attached to it, a
\* resize notification and a positive attribute/style diff arm the timer of the
\* host's registered instance; and an event on a host makes render requests
\* only for instances of that host, so none at all for a host never attached.
C9_AttachTriggers ==
    /\ last.op = "attach"
          => /\ nus[last.nu].el = last.el
             /\ resizeNuMap[last.el] = last.nu /\ mutationNuMap[last.el] = last.nu
    /\ last.op = "input"
          => \A i \in Nus : nus[i].el = last.el
                => i \in Range(last.rendered) /\ nus[i].timeout = Some(Wait)
    /\ (last.op = "resize" /\ resizeNuMap[last.el] # 0)
          => nus[resizeNuMap[last.el]].timeout = Some(Wait)
    /\ (last.op \in {"style"} \cup DataAttrs /\ last.diff)
          => /\ Registered(last.el) \in Range(last.rendered)
             /\ nus[Registered(last.el)].timeout = Some(Wait)
    /\ last.op \in EventOps => \A i \in Range(last.rendered) : nus[i].el = last.el
    /\ \A i \in Nus : Pending(i) => hist[i].requests >= 1

\* C9 witness: a page with an attached and a never attached host; a positive
\* style diff has just armed the timer of the attached host's instance.
C9_Witness ==
    /\ last.op = "style" /\ last.diff
    /\ \E i \in Nus : nus[i].el = last.el /\ Pending(i)
    /\ \E h \in document : \A i \in Nus : nus[i].el # h

\* C10: handleRender is idempotent: a second pass on the same instance with the
\* host unchanged leaves the same raster (dimensions, fills, numerals, their
\* positions), the same data URL and the same host styling as the first; this
\* holds of the pass just executed, and of two executions between which the
\* host state did not change. (Checked in every state that a step other than
\* the passing of time has led to.)
C10_Idempotent ==
    TimePassed \/ \A i \in Nus :
        LET el == nus[i].el
            r1 == handleRender(nus[i], css[el], attrs[el], scrollHeight[el], inlineStyle[el])
            r2 == handleRender(r1.nu, css[el], attrs[el], scrollHeight[el], r1.inline)
        IN  /\ r2.nu.canvas = r1.nu.canvas
            /\ r2.inline = r1.inline
            /\ JustFired(i) => r1.nu.canvas = nus[i].canvas /\ r1.inline = inlineStyle[el]
            /\ (hist[i].prevFire # None /\ hist[i].prevFire[1].state = hist[i].fireState[1])
                  => /\ nus[i].canvas = hist[i].prevFire[1].canvas
                     /\ hist[i].fireInline[1] = hist[i].prevFire[1].inline

\* C10 witness: an instance has executed twice with the same host state.
C10_Witness ==
    \E i \in Nus :
        /\ JustFired(i) /\ hist[i].executions >= 2
        /\ hist[i].prevFire[1].state = hist[i].fireState[1]
        /\ Len(nus[i].canvas.texts) >= 5

\* The configuration attribute of each key, and the declared defaults.
KeyAttr ==
    [numberWidth |-> "data-nut-width", numberPadding |-> "data-nut-padding",
     numberColor |-> "data-nut-color", numberBgColor |-> "data-nut-bg-color"]
DeclaredDefaults ==
    [numberWidth |-> "64px", numberPadding |-> "8px",
     numberColor |-> "#666", numberBgColor |-> "#f4f4f4"]

\* C11: every render pass resolves the configuration anew, key by key: the
\* override value given at attach if there is one, else the host's present
\* attribute value if it is present and not empty, else the declared default
\* (64px, 8px, #666, #f4f4f4); and the pass paints and measures with the
\* resolved values.
C11_ConfigResolution ==
    \A i \in Nus :
        JustFired(i) =>
            LET el == nus[i].el
                override == nus[i].styles[1]
                resolved == hist[i].fireStyles[1]
                m == hist[i].fireMeasure[1]
            IN  /\ \A k \in StyleKeys :
                      resolved[k] =
                          IF k \in DOMAIN override THEN override[k]
                          ELSE IF attrs[el][KeyAttr[k]] \notin {Null, ""}
                               THEN attrs[el][KeyAttr[k]]
                               ELSE DeclaredDefaults[k]
                /\ nus[i].canvas.fillStyle = resolved.numberColor
                /\ nus[i].canvas.rect[1].fillStyle = resolved.numberBgColor
                /\ m.nuWidth = Px(resolved.numberWidth)
                /\ m.nuPadding = Px(resolved.numberPadding)

\* C11 witness: a pass of an instance attached with a numberColor override, on a
\* host whose data-nut-color attribute has another value: the override is the
\* resolved colour, the gutter width is the default.
C11_Witness ==
    \E i \in Nus :
        /\ JustFired(i)
        /\ "numberColor" \in DOMAIN nus[i].styles[1]
        /\ attrs[nus[i].el][ColorAttr] = "#c00"
        /\ hist[i].fireStyles[1].numberColor = "#00c"
        /\ hist[i].fireStyles[1].numberWidth = "64px"

\* The last step was a timer firing whose render pass threw (last.op is the
\* statement that threw).
Thrown == last.op \in Range(handleRenderSteps)

\* C12: a render pass that throws ends that invocation only: the host's inline
\* styling is what it was, which is what the last completed pass wrote (nothing
\* if there was none); the failure arms no timer and requests no render; a
\* later request arms the timer with the full interval, and the pass it leads
\* to comes after the quiet interval and leaves the raster, the snapshot and
\* the host styling that a pass of a new instance would leave.
C12_RenderFailure ==
    /\ Thrown =>
          LET i == last.nu
              el == last.el
          IN  /\ ~last.changed
              /\ inlineStyle[el] =
                    (IF hist[i].executions >= 1 THEN hist[i].fireInline[1] ELSE NoInlineStyle)
              /\ ~Pending(i) /\ last.rendered = <<>>
    /\ \A i \in Nus :
          hist[i].throws >= 1 =>
              /\ (last.op \in {"input", "resize"} /\ nus[i].el = last.el)
                    => nus[i].timeout = Some(Wait)
              /\ JustFired(i) =>
                    LET el == nus[i].el
                        new == [NewNu(el, None, devicePixelRatio) EXCEPT !.styles = nus[i].styles]
                        r == handleRender(new, css[el], attrs[el], scrollHeight[el], NoInlineStyle)
                    IN  /\ hist[i].fireGap >= Wait
                        /\ nus[i].canvas = r.nu.canvas
                        /\ nus[i].styleMutation = r.nu.styleMutation
                        /\ inlineStyle[el] = r.inline

\* C12 witness: a pass has completed on a request that came after a pass of the
\* same instance threw.
C12_Witness ==
    \E i \in Nus :
        /\ JustFired(i) /\ hist[i].throws >= 1 /\ hist[i].executions >= 1
        /\ inlineStyle[nus[i].el].backgroundImage # None

\* The statements of handleRender that come after the snapshot capture.
AfterCapture ==
    {handleRenderSteps[k] : k \in StepIndex(handleRenderSteps, "styleMutation.set") + 1
                                  .. Len(handleRenderSteps)}

\* C13: in each render pass the snapshot is captured before the host style is
\* written: a pass that gets past the capture holds the host's present style
\* and attributes as its snapshot whether or not it reaches the write; so the
\* style mutation the pass's own write causes gives a negative style diff and
\* no render request, and the instance is idle after the pass.
C13_NoSelfTrigger ==
    /\ \A i \in Nus :
          JustFired(i) =>
              /\ i \notin Range(last.rendered) /\ ~Pending(i)
              /\ Registered(nus[i].el) = i
                    => /\ last.rendered = <<>>
                       /\ ~styleDiff(nus[i].styleMutation, css[nus[i].el]).result
    /\ (Thrown /\ last.op \in AfterCapture)
          => /\ nus[last.nu].styleMutation.prevStyle = css[last.el]
             /\ nus[last.nu].styleMutation.prevData = [a \in DataAttrs |-> attrs[last.el][a]]
             /\ ~last.changed

\* C13 witness: the first pass of an instance has just written the host style,
\* with tracked style values that are not those the page loaded with, and no
\* render is pending.
C13_Witness ==
    \E i \in Nus :
        /\ JustFired(i) /\ hist[i].executions = 1 /\ ~Pending(i)
        /\ css[nus[i].el] # DefaultCss
        /\ inlineStyle[nus[i].el].backgroundImage # None

\* C14: a mutation of the style attribute of a registered host makes a render
\* request, for the host's registered instance, if and only if one of the five
\* tracked properties of the computed style differed from the snapshot; after
\* the mutation the snapshot holds the present values whether or not a render
\* has executed, so a further style mutation with the same computed values
\* finds no difference and makes no request. A style mutation of a host with no
\* registered instance makes no request.
C14_StyleMutationRequest ==
    last.op = "style" =>
        LET i == Registered(last.el)
        IN  /\ i = 0 => last.rendered = <<>>
            /\ i # 0 =>
                  /\ last.diff <=> last.rendered = <<i>>
                  /\ ~last.diff <=> last.rendered = <<>>
                  /\ last.diff => nus[i].timeout = Some(Wait)
                  /\ \A p \in StyleProps : nus[i].styleMutation.prevStyle[p] = css[last.el][p]
                  /\ ~styleDiff(nus[i].styleMutation, css[last.el]).result

\* C14 witness: no render has executed; a style mutation found a difference and
\* made the one request so far, and a second style mutation with the same
\* computed values has just made none.
C14_Witness ==
    /\ last.op = "style" /\ ~last.changed /\ ~last.diff /\ last.rendered = <<>>
    /\ Registered(last.el) # 0
    /\ LET i == Registered(last.el)
       IN  /\ hist[i].executions = 0 /\ hist[i].requests = 1 /\ Pending(i)
           /\ hist[i].burstStart[1].css = css[last.el]
           /\ css[last.el] # DefaultCss

\* C15: instances are isolated. A step that is an event on host A, or the
\* firing of a timer of an instance of A, leaves every instance of another host
\* as it was (timer, snapshot, raster), leaves that host's styling as it was and
\* makes no request for it; a pending timer always has the quiet interval
\* minus the time since its own instance's last request left to run, and every
\* pass ran exactly the quiet interval after its instance's last request.
C15_Isolation ==
    /\ [][\A j \in Nus :
            (last'.op \in EventOps \cup {"timeout"} /\ nus[j].el # last'.el)
                => /\ j \in DOMAIN nus' /\ nus'[j] = nus[j]
                   /\ inlineStyle'[nus[j].el] = inlineStyle[nus[j].el]
                   /\ hist'[j].requests = hist[j].requests
                   /\ j \notin Range(last'.rendered)]_vars
    /\ [](\A j \in Nus :
            /\ Pending(j) => nus[j].timeout[1] = Wait - hist[j].sinceRequest
            /\ hist[j].executions >= 1 => hist[j].fireGap = Wait)

\* C15 witness: the instance of h2 has just rendered, at its deadline, while the
\* instance of h1 is pending on a request made during h2's quiet interval.
C15_Witness ==
    \E i, j \in Nus :
        /\ nus[i].el = "h1" /\ nus[j].el = "h2"
        /\ JustFired(j) /\ hist[j].fireGap = Wait /\ hist[j].requests = 1
        /\ Pending(i) /\ nus[i].timeout[1] > 0 /\ nus[i].timeout[1] < Wait

\* The instances constructed for host h.
InstancesOf(h) == {i \in Nus : nus[i].el = h}

\* C17: after any sequence of attach calls the two registries hold the same
\* mapping from hosts to instances; a host has an entry exactly when an
\* instance was ever attached to it, so no entry is ever removed; and the one
\* instance the entry names is an instance of that host, the one attached last.
C17_Registries ==
    \A h \in Hosts :
        /\ mutationNuMap[h] = resizeNuMap[h]
        /\ mutationNuMap[h] = 0 <=> InstancesOf(h) = {}
        /\ mutationNuMap[h] # 0
              => /\ mutationNuMap[h] \in InstancesOf(h)
                 /\ \A i \in InstancesOf(h) : i <= mutationNuMap[h]

\* C17 witness: nut() has been called on a host that init() had attached: the
\* host has two instances, the registries name the second, and the other
\* host's entry still names its instance.
C17_Witness ==
    /\ last.op = "attach" /\ Cardinality(InstancesOf(last.el)) = 2
    /\ mutationNuMap[last.el] = last.nu /\ resizeNuMap[last.el] = last.nu
    /\ \E h \in Hosts \ {last.el} : mutationNuMap[h] # 0 /\ mutationNuMap[h] < last.nu

\* C18: every instance has at most one armed timer; the executions of its
\* render body never outnumber the requests made for it, an armed timer stands
\* for a request not yet served, and a pass that has just executed was
\* requested after the pass before it.
C18_TimersAndExecutions ==
    \A i \in Nus :
        /\ Len(nus[i].timeout) <= 1
        /\ hist[i].executions <= hist[i].requests
        /\ Pending(i) => hist[i].executions < hist[i].requests
        /\ hist[i].executions >= 1 => hist[i].requests >= 1 /\ hist[i].burstStart # None
        /\ hist[i].requests = 0 => ~Pending(i) /\ nus[i].canvas.rect = None

\* C18 witness: an instance has executed once and its second request is
\* pending, on one armed timer that has run for a part of the interval.
C18_Witness ==
    \E i \in Nus :
        /\ hist[i].requests = 2 /\ hist[i].executions = 1
        /\ Len(nus[i].timeout) = 1 /\ nus[i].timeout[1] < Wait

\* C19: the snapshot of an instance is empty when the instance is attached and
\* as long as no request was made for it; a step changes it only if it is the
\* instance's own render pass or a mutation of the style attribute or of a
\* configuration attribute of its host; input events, resize notifications,
\* changes of the value and of other attributes, attach calls and the passing
\* of time leave every snapshot as it is; a style mutation (also the one a
\* pass's write causes, for instances other than the one that rendered) leaves
\* the attribute part as it is, and an attribute mutation the style part.
C19_SnapshotFrame ==
    /\ [](\A i \in Nus :
            (hist[i].requests = 0 /\ hist[i].executions = 0)
                => nus[i].styleMutation = NewStyleMutation)
    /\ [][\A i \in Nus :
            LET before == nus[i].styleMutation
                after == nus'[i].styleMutation
            IN  /\ after # before
                      => \/ last'.op = "timeout" /\ nus[i].el = last'.el
                         \/ last'.op \in {"style"} \cup DataAttrs /\ nus[i].el = last'.el
                /\ last'.op \in {"input", "resize", "value", "attach", "tick", OtherAttr}
                      => after = before
                /\ (last'.op = "style" \/ (last'.op = "timeout" /\ last'.nu # i))
                      => after.prevData = before.prevData
                /\ last'.op \in DataAttrs => after.prevStyle = before.prevStyle]_vars

\* C19 witness: an attribute diff has filled the attribute part of a snapshot
\* whose style part is still empty: data-nut-color was set on an attached host
\* that has not rendered yet.
C19_Witness ==
    \E i \in Nus :
        /\ last.op = ColorAttr /\ nus[i].el = last.el /\ hist[i].executions = 0
        /\ nus[i].styleMutation.prevData[ColorAttr] = "#c00"
        /\ nus[i].styleMutation.prevStyle = NewStyleMutation.prevStyle

\* C16: every instance is either idle (no timer armed) or pending (one timer
\* armed, with between 0 and Wait left to run), and a render body that has
\* begun to execute has run to completion: in no state between two handlers is
\* an instance inside handleRender; a timer that fires leaves its instance
\* idle with one more pass executed.
C16_AsClaimed ==
    \A i \in Nus :
        /\ nus[i].timeout = None \/ \E r \in 0..Wait : nus[i].timeout = Some(r)
        /\ running # i
        /\ JustFired(i) => ~Pending(i) /\ hist[i].executions >= 1

====
